---- MODULE Spec2Model ----
(***************************************************************************)
(* Model of LunarSimulator/PythonAPI/examples/manual_control.py:           *)
(* KeyboardControl.__init__ and KeyboardControl.parse_events, called once  *)
(* per iteration of the while-loop of game_loop; and, in the second half   *)
(* of the module, World, CameraManager, the image callback and the         *)
(* try/finally of game_loop.                                               *)
(*                                                                         *)
(* Numbers.  The setpoints are Python floats built from decimal constants  *)
(* that are all multiples of 0.001 (0.01, 0.017, 0.17, 0.5, 0.79, 2.36).   *)
(* The model keeps them in thousandths, as integers: 0.5 is 500, 0.017 is  *)
(* 17, 2.36 is 2360.  Light levels are kept in percent (0.0 .. 100.0 is    *)
(* 0 .. 100) and the argument of set_light_state, light_value/100, in      *)
(* thousandths like the setpoints.                                         *)
(*                                                                         *)
(* Control flow.  One call of parse_events is the steps                    *)
(*   KeyUp* ; RampUpdate                                                   *)
(* (one KeyUp per queued KEYUP event of the for-loop of lines 286-351,     *)
(* then lines 353-394); pc = "events" while the call is in, or about to    *)
(* enter, its event loop.  In Spec, SpecHold and SpecScenario the world    *)
(* stays as World(...) left it (WorldReady) and the only step that leaves  *)
(* "events" is RampUpdate; in SpecWorld the other key-ups, the QUIT event  *)
(* and the exceptions leave it too.  TickRender is the rest of the loop    *)
(* body of game_loop (lines 689-692) and the return to line 687.           *)
(*                                                                         *)
(* Environment.  The reachable values of the six setpoints form a product  *)
(* of several hundred values each, so the operator at the keyboard is      *)
(* modelled as working one control at a time: focus names the control      *)
(* whose keys may be held in any combination, and at most MaxMixed frames  *)
(* of a run hold keys of every control at once.  With focus = "lights"     *)
(* the number keys are released and at most MaxLit lights are lit at a     *)
(* time.  focus, mixed, frame, hold, hold_from and stay describe the       *)
(* environment and the observer, not the program.                          *)
(***************************************************************************)
EXTENDS Integers, FiniteSets, Sequences, TLC

VARIABLES
    pc,                       \* position of game_loop / parse_events
    linear_target_speed,      \* KeyboardControl fields, thousandths
    angular_target_speed,
    front_drum_target_speed,
    front_arm_target_angle,
    back_arm_target_angle,
    back_drum_target_speed,
    lights_value,             \* KeyboardControl.lights_value, percent
    light_state,              \* world.player: last set_light_state argument per position
    keys,                     \* pygame.key.get_pressed() of the latest parse_events call
    calls,                    \* setter calls made on world.player by lines 369-394 of that call
    focus,                    \* environment: the control the operator works
    mixed,                    \* environment: frames so far that held keys of every control
    frame,                    \* observer: parse_events calls completed (scripted runs)
    hold,                     \* observer: consecutive frames holding only the increase key of focus
    hold_from,                \* observer: value of the focus channel when that streak began
    stay,                     \* observer: frames of that streak that left the value as it was
    world,                    \* game_loop: the local world, "None" until World(...) has returned
    player,                   \* World.player: "None" or the vehicle actor
    camera_manager,           \* World.camera_manager: "None" or the CameraManager
    cm_index,                 \* CameraManager.index: NoIndex or an index into sensors
    cm_transform_index,       \* CameraManager.transform_index
    cm_sensor,                \* CameraManager.sensor: "None" or the camera actor
    sensor_stops,             \* stop() calls received by the actor cm_sensor refers to
    sensor_destroys,          \* destroy() calls received by that actor
    listening,                \* that actor is alive and has a listener registered (line 613)
    cm_surface,               \* CameraManager.surface: "None" or the latest image
    cm_recording,             \* CameraManager.recording
    saved,                    \* the latest _parse_image call wrote its image to disk
    recording_enabled,        \* World.recording_enabled
    recorder,                 \* client: the latest recorder call, "none" before the first
    radiator,                 \* world.player: the latest radiator cover state set
    cam_index,                \* World.restart: its locals cam_index and cam_pos_index
    cam_pos_index,
    ss_index,                 \* CameraManager.set_sensor: its local index, between lines 613 and 614
    caller,                   \* who called the set_sensor that is between lines 613 and 614
    cb_pc,                    \* position of the simulator's image callback
    loop_exit,                \* what ended the while-loop of game_loop, "none" while it runs
    teardown                  \* the calls of the finally block of game_loop, in order

setpoints == <<linear_target_speed, angular_target_speed, front_drum_target_speed,
               front_arm_target_angle, back_arm_target_angle, back_drum_target_speed>>
observers == <<frame, hold, hold_from, stay>>
camera_vars == <<camera_manager, cm_index, cm_transform_index, cm_sensor, sensor_stops,
                 sensor_destroys, listening, cm_surface, cm_recording, saved>>
restart_locals == <<cam_index, cam_pos_index, ss_index, caller>>
world_vars == <<world, player, camera_vars, recording_enabled, recorder, radiator,
                restart_locals, cb_pc, loop_exit, teardown>>
vars == <<pc, setpoints, lights_value, light_state, keys, calls, focus, mixed, observers,
          world_vars>>

(***************************************************************************)
(* Bounds of the environment.                                              *)
(***************************************************************************)
MaxMixed == 2
MaxLit == 2
HoldFrames == 60
ReleaseFrames == 10
MaxExtra == 2

(***************************************************************************)
(* KeyboardControl.__init__ : constants, in thousandths (lights: percent). *)
(***************************************************************************)
linear_speed_increase == 10
angular_speed_increase == 10
drum_speed_increase == 17
arm_angle_increase == 17
max_linear_speed == 500
max_angular_speed == 500
max_arm_angle == 2360
max_drum_speed == 170
lights_increase == 10
initial_arm_angle == 790

Min(a, b) == IF a <= b THEN a ELSE b
Max(a, b) == IF a >= b THEN a ELSE b

SensorPositions ==
    {"Front", "FrontLeft", "FrontRight", "Left", "Right", "BackLeft", "BackRight", "Back"}

NoLights == [p \in SensorPositions |-> 0]


(***************************************************************************)
(* The keys parse_events reads, and the control each belongs to.           *)
(***************************************************************************)
Channels == {"linear", "angular", "front_drum", "front_arm", "back_arm", "back_drum"}
HoldChannels == {"front_drum", "front_arm", "back_arm", "back_drum"}

\* The keys whose branch adds the step to the channel's setpoint.
IncKeys(c) ==
    CASE c = "linear" -> {"K_UP", "K_w"}
      [] c = "angular" -> {"K_RIGHT", "K_d"}
      [] c = "front_drum" -> {"K_f"}
      [] c = "front_arm" -> {"K_g"}
      [] c = "back_arm" -> {"K_h"}
      [] c = "back_drum" -> {"K_j"}

\* The keys whose branch subtracts the step from the channel's setpoint.
DecKeys(c) ==
    CASE c = "linear" -> {"K_DOWN", "K_s"}
      [] c = "angular" -> {"K_LEFT", "K_a"}
      [] c = "front_drum" -> {"K_v"}
      [] c = "front_arm" -> {"K_b"}
      [] c = "back_arm" -> {"K_n"}
      [] c = "back_drum" -> {"K_m"}

\* The world.player method each channel's setpoint is passed to.
SetterOf(c) ==
    CASE c = "linear" -> "apply_velocity_control"
      [] c = "angular" -> "apply_velocity_control"
      [] c = "front_drum" -> "set_front_drums_target_speed"
      [] c = "front_arm" -> "set_front_arm_angle"
      [] c = "back_arm" -> "set_back_arm_angle"
      [] c = "back_drum" -> "set_back_drums_target_speed"

Setters == {SetterOf(c) : c \in Channels}

\* The setpoint of channel c in the current state.
Val(c) ==
    CASE c = "linear" -> linear_target_speed
      [] c = "angular" -> angular_target_speed
      [] c = "front_drum" -> front_drum_target_speed
      [] c = "front_arm" -> front_arm_target_angle
      [] c = "back_arm" -> back_arm_target_angle
      [] c = "back_drum" -> back_drum_target_speed

Held(k, ks) == (k \cap ks) # {}

(***************************************************************************)
(* Lines 355-367: the two speed channels.                                  *)
(***************************************************************************)
LinearUpdateNoClamp(v, k) ==
    IF Held(k, {"K_UP", "K_w"})
    THEN v + linear_speed_increase
    ELSE IF Held(k, {"K_DOWN", "K_s"})
         THEN Max(v - linear_speed_increase, -max_linear_speed)
         ELSE Max(v - 2 * linear_speed_increase, 0)

LinearUpdateDownFirst(v, k) ==
    IF Held(k, {"K_DOWN", "K_s"})
    THEN Max(v - linear_speed_increase, -max_linear_speed)
    ELSE IF Held(k, {"K_UP", "K_w"})
         THEN Min(v + linear_speed_increase, max_linear_speed)
         ELSE Max(v - 2 * linear_speed_increase, 0)

LinearUpdateSlowDecay(v, k) ==
    IF Held(k, {"K_UP", "K_w"})
    THEN Min(v + linear_speed_increase, max_linear_speed)
    ELSE IF Held(k, {"K_DOWN", "K_s"})
         THEN Max(v - linear_speed_increase, -max_linear_speed)
         ELSE Max(v - linear_speed_increase, 0)

LinearUpdate(v, k) ==
    IF Held(k, {"K_UP", "K_w"})
    THEN Min(v + linear_speed_increase, max_linear_speed)
    ELSE IF Held(k, {"K_DOWN", "K_s"})
         THEN Max(v - linear_speed_increase, -max_linear_speed)
         ELSE Max(v - 2 * linear_speed_increase, 0)

AngularUpdateSymmetricDecay(v, k) ==
    IF Held(k, {"K_LEFT", "K_a"})
    THEN Max(v - angular_speed_increase, -max_angular_speed)
    ELSE IF Held(k, {"K_RIGHT", "K_d"})
         THEN Min(v + angular_speed_increase, max_angular_speed)
         ELSE IF v >= 0 THEN v - 2 * angular_speed_increase
                        ELSE v + 2 * angular_speed_increase

AngularUpdate(v, k) ==
    IF Held(k, {"K_LEFT", "K_a"})
    THEN Max(v - angular_speed_increase, -max_angular_speed)
    ELSE IF Held(k, {"K_RIGHT", "K_d"})
         THEN Min(v + angular_speed_increase, max_angular_speed)
         ELSE Max(v - 2 * angular_speed_increase, 0)

(***************************************************************************)
(* Lines 371-394: the four hold-and-ramp channels.  Each returns the new   *)
(* setpoint; the matching ...Calls is the list of argument lists its       *)
(* setter is called with in this frame.                                    *)
(***************************************************************************)
FrontDrumUpdateNoSnap(v, k) ==
    IF "K_f" \in k
    THEN (IF v + drum_speed_increase < max_drum_speed THEN v + drum_speed_increase ELSE v)
    ELSE IF "K_v" \in k
         THEN Max(v - drum_speed_increase, -max_drum_speed)
         ELSE v

FrontDrumUpdate(v, k) ==
    IF "K_f" \in k
    THEN Min(v + drum_speed_increase, max_drum_speed)
    ELSE IF "K_v" \in k
         THEN Max(v - drum_speed_increase, -max_drum_speed)
         ELSE v

FrontDrumCalls(v, k) ==
    IF "K_f" \in k \/ "K_v" \in k THEN << <<FrontDrumUpdate(v, k)>> >> ELSE << >>

FrontArmUpdate(v, k) ==
    IF "K_g" \in k
    THEN Min(v + arm_angle_increase, max_arm_angle)
    ELSE IF "K_b" \in k
         THEN Max(v - arm_angle_increase, -max_arm_angle)
         ELSE v

FrontArmCalls(v, k) ==
    IF "K_g" \in k \/ "K_b" \in k THEN << <<FrontArmUpdate(v, k)>> >> ELSE << >>

BackArmUpdateDrift(v, k) ==
    IF "K_h" \in k
    THEN Min(v + arm_angle_increase, max_arm_angle)
    ELSE IF "K_n" \in k
         THEN Max(v - arm_angle_increase, -max_arm_angle)
         ELSE Max(v - 2 * arm_angle_increase, 0)

BackArmUpdate(v, k) ==
    IF "K_h" \in k
    THEN Min(v + arm_angle_increase, max_arm_angle)
    ELSE IF "K_n" \in k
         THEN Max(v - arm_angle_increase, -max_arm_angle)
         ELSE v

BackArmCalls(v, k) ==
    IF "K_h" \in k \/ "K_n" \in k THEN << <<BackArmUpdate(v, k)>> >> ELSE << >>

BackDrumUpdateArmStep(v, k) ==
    IF "K_j" \in k
    THEN Min(v + drum_speed_increase, max_arm_angle)
    ELSE IF "K_m" \in k
         THEN Max(v - drum_speed_increase, -max_arm_angle)
         ELSE v

BackDrumUpdate(v, k) ==
    IF "K_j" \in k
    THEN Min(v + drum_speed_increase, max_drum_speed)
    ELSE IF "K_m" \in k
         THEN Max(v - drum_speed_increase, -max_drum_speed)
         ELSE v

BackDrumCallsAlways(v, k) == << <<BackDrumUpdate(v, k)>> >>

BackDrumCalls(v, k) ==
    IF "K_j" \in k \/ "K_m" \in k THEN << <<BackDrumUpdate(v, k)>> >> ELSE << >>

NoCalls == [fn \in Setters |-> << >>]

VelocityCallsPerKey(linear, angular, k) ==
    [i \in 1..Cardinality(k) |-> <<linear, angular>>]

\* Line 369: the velocity command, with the updated linear and angular setpoints,
\* whatever keys k are held.
VelocityCalls(linear, angular, k) == << <<linear, angular>> >>

(***************************************************************************)
(* Lines 353-394 of parse_events: sample the held keys, update the six     *)
(* setpoints, command the vehicle; parse_events then returns None.         *)
(***************************************************************************)
RampUpdate(k) ==
    /\ pc = "events"
    /\ keys' = k
    /\ linear_target_speed' = LinearUpdate(linear_target_speed, k)
    /\ angular_target_speed' = AngularUpdate(angular_target_speed, k)
    /\ front_drum_target_speed' = FrontDrumUpdate(front_drum_target_speed, k)
    /\ front_arm_target_angle' = FrontArmUpdate(front_arm_target_angle, k)
    /\ back_arm_target_angle' = BackArmUpdate(back_arm_target_angle, k)
    /\ back_drum_target_speed' = BackDrumUpdate(back_drum_target_speed, k)
    /\ calls' =
         [fn \in Setters |->
            CASE fn = "apply_velocity_control" ->
                   VelocityCalls(LinearUpdate(linear_target_speed, k),
                                 AngularUpdate(angular_target_speed, k), k)
              [] fn = "set_front_drums_target_speed" ->
                   FrontDrumCalls(front_drum_target_speed, k)
              [] fn = "set_front_arm_angle" ->
                   FrontArmCalls(front_arm_target_angle, k)
              [] fn = "set_back_arm_angle" ->
                   BackArmCalls(back_arm_target_angle, k)
              [] fn = "set_back_drums_target_speed" ->
                   BackDrumCalls(back_drum_target_speed, k)]
    /\ pc' = "render"
    /\ UNCHANGED <<lights_value, light_state, world_vars>>

(***************************************************************************)
(* game_loop lines 689-692 and the return to line 687: world.tick,         *)
(* world.render, display.flip; the next parse_events call begins with no   *)
(* keys sampled and no setter called yet.                                  *)
(***************************************************************************)
TickRender ==
    /\ pc = "render"
    /\ pc' = "events"
    /\ keys' = {}
    /\ calls' = NoCalls
    /\ UNCHANGED <<setpoints, lights_value, light_state, focus, mixed, observers, world_vars>>


(***************************************************************************)
(* Lines 327-351 of parse_events: a KEYUP event of a number key.           *)
(***************************************************************************)
LightKeys == {"K_1", "K_2", "K_3", "K_4", "K_5", "K_6", "K_7", "K_8"}

\* Lines 327-343: the sensor position a key selects (None for any other key).
SensorOf(key) ==
    CASE key = "K_1" -> "Front"
      [] key = "K_2" -> "FrontLeft"
      [] key = "K_3" -> "FrontRight"
      [] key = "K_4" -> "Left"
      [] key = "K_5" -> "Right"
      [] key = "K_6" -> "BackLeft"
      [] key = "K_7" -> "BackRight"
      [] key = "K_8" -> "Back"
      [] OTHER -> "None"

LightValueLowerClampOnly(level, shift) ==
    IF shift
    THEN Max(level - lights_increase, 0)
    ELSE Max(level + lights_increase, 0)

LightValueShiftIgnored(level, shift) ==
    Max(Min(level + lights_increase, 100), 0)

\* Lines 345-348: the new level, KMOD_SHIFT held or not.
LightValue(level, shift) ==
    IF shift
    THEN Max(Min(level - lights_increase, 100), 0)
    ELSE Max(Min(level + lights_increase, 100), 0)

\* Line 350: light_value/100, in thousandths.
LightStateArg(light_value) == (light_value * 1000) \div 100

KeyUpAllPositions(key, shift) ==
    /\ pc = "events"
    /\ SensorOf(key) # "None"
    /\ LET sensor == SensorOf(key)
           light_value == LightValue(lights_value[sensor], shift)
       IN /\ lights_value' = [p \in SensorPositions |-> light_value]
          /\ light_state' = [p \in SensorPositions |-> LightStateArg(light_value)]
    /\ UNCHANGED <<pc, setpoints, keys, calls, world_vars>>

\* One iteration of the for-loop for a KEYUP event of a number key
\* (no branch of lines 290-325 matches such a key).
KeyUp(key, shift) ==
    /\ pc = "events"
    /\ SensorOf(key) # "None"
    /\ LET sensor == SensorOf(key)
           light_value == LightValue(lights_value[sensor], shift)
       IN /\ lights_value' = [lights_value EXCEPT ![sensor] = light_value]
          /\ light_state' = [light_state EXCEPT ![sensor] = LightStateArg(light_value)]
    /\ UNCHANGED <<pc, setpoints, keys, calls, world_vars>>

(***************************************************************************)
(* State after KeyboardControl.__init__ (lines 256-283) and the set-up of  *)
(* game_loop (lines 668-682: the arm angles are sent, every light is set   *)
(* to 0.0), at the first evaluation of line 687.                           *)
(***************************************************************************)
Controls == Channels \cup {"lights"}

\* None as the value of an index field or local (line 582: self.index = None).
NoIndex == -1

\* The world, the camera and the recorder once World(...) has returned (lines 145-162,
\* 164-213 with no player yet, 547-583, 592-614) and game_loop has reached line 687.
WorldReady ==
    /\ world = "World"
    /\ player = "alive"
    /\ camera_manager = "CameraManager"
    /\ cm_index = 0
    /\ cm_transform_index = 0
    /\ cm_sensor = "actor"
    /\ sensor_stops = 0
    /\ sensor_destroys = 0
    /\ listening = TRUE
    /\ cm_surface = "None"
    /\ cm_recording = FALSE
    /\ saved = FALSE
    /\ recording_enabled = FALSE
    /\ recorder = "none"
    /\ radiator = "unset"
    /\ cam_index = NoIndex
    /\ cam_pos_index = NoIndex
    /\ ss_index = NoIndex
    /\ caller = "None"
    /\ cb_pc = "idle"
    /\ loop_exit = "none"
    /\ teardown = << >>

Init ==
    /\ pc = "events"
    /\ linear_target_speed = 0
    /\ angular_target_speed = 0
    /\ front_drum_target_speed = 0
    /\ front_arm_target_angle = initial_arm_angle
    /\ back_arm_target_angle = initial_arm_angle
    /\ back_drum_target_speed = 0
    /\ lights_value = NoLights
    /\ light_state = NoLights
    /\ keys = {}
    /\ calls = NoCalls
    /\ focus \in Controls
    /\ mixed = 0
    /\ frame = 0
    /\ hold = 0
    /\ hold_from = 0
    /\ stay = 0
    /\ WorldReady

(***************************************************************************)
(* The environment of Spec: which keys are held in a frame, which number   *)
(* keys are released.                                                      *)
(***************************************************************************)
\* Every combination of the keys of the control in focus.
KeySetsOf(c) == IF c \in Channels THEN SUBSET (IncKeys(c) \cup DecKeys(c)) ELSE {{}}

AllIncKeys == {"K_w", "K_d", "K_f", "K_g", "K_h", "K_j"}
AllDecKeys == {"K_s", "K_a", "K_v", "K_b", "K_n", "K_m"}
MixedKeySets == {AllIncKeys, AllDecKeys, AllIncKeys \cup AllDecKeys}

Lit(lv) == {p \in SensorPositions : lv[p] > 0}

\* A frame in which only keys of the control in focus are held.
Frame(k) ==
    /\ k \in KeySetsOf(focus)
    /\ RampUpdate(k)
    /\ UNCHANGED <<focus, mixed, observers>>

\* A frame in which keys of all six channels are held.
MixedFrame(k) ==
    /\ k \in MixedKeySets
    /\ focus # "lights"
    /\ mixed < MaxMixed
    /\ RampUpdate(k)
    /\ mixed' = mixed + 1
    /\ UNCHANGED <<focus, observers>>

\* A number key is released, with or without shift.
Toggle(key, shift) ==
    /\ focus = "lights"
    /\ KeyUp(key, shift)
    /\ Cardinality(Lit(lights_value')) <= MaxLit
    /\ UNCHANGED <<focus, mixed, observers>>

Next ==
    \/ \E k \in KeySetsOf(focus) : Frame(k)
    \/ \E k \in MixedKeySets : MixedFrame(k)
    \/ \E key \in LightKeys, shift \in BOOLEAN : Toggle(key, shift)
    \/ TickRender

Spec == Init /\ [][Next]_vars


(***************************************************************************)
(* SpecHold: the operator works one channel and the observer counts the    *)
(* frames of the current streak in which only the increase key of that     *)
(* channel is held.  A streak goes on for at most MaxExtra frames that no  *)
(* longer change the value.                                                *)
(***************************************************************************)
OnlyInc(c, k) == Held(k, IncKeys(c)) /\ ~Held(k, DecKeys(c))

HoldFrame(k) ==
    /\ focus \in Channels
    /\ k \in KeySetsOf(focus)
    /\ RampUpdate(k)
    /\ UNCHANGED <<focus, mixed, frame>>
    /\ IF OnlyInc(focus, k)
       THEN /\ hold' = hold + 1
            /\ hold_from' = IF hold = 0 THEN Val(focus) ELSE hold_from
            /\ stay' = IF Val(focus)' = Val(focus) THEN stay + 1 ELSE 0
            /\ stay' <= MaxExtra
       ELSE /\ hold' = 0
            /\ hold_from' = 0
            /\ stay' = 0

InitHold == Init /\ focus \in Channels

NextHold ==
    \/ \E k \in KeySetsOf(focus) : HoldFrame(k)
    \/ TickRender

SpecHold == InitHold /\ [][NextHold]_vars

(***************************************************************************)
(* SpecScenario: a scripted run.  A forward key is held in frames          *)
(* 1 .. HoldFrames and no linear key in the ReleaseFrames frames after     *)
(* them; the steering keys are free throughout.                            *)
(***************************************************************************)
ScriptKeys(f) ==
    {lk \cup ak :
       lk \in (IF f <= HoldFrames THEN {{"K_w"}, {"K_UP"}, {"K_w", "K_s"}} ELSE {{}}),
       ak \in {{}, {"K_a"}, {"K_d"}}}

ScriptFrame(k) ==
    /\ frame < HoldFrames + ReleaseFrames
    /\ k \in ScriptKeys(frame + 1)
    /\ RampUpdate(k)
    /\ frame' = frame + 1
    /\ UNCHANGED <<focus, mixed, hold, hold_from, stay>>

InitScenario == Init /\ focus = "linear"

NextScenario ==
    \/ \E k \in ScriptKeys(frame + 1) : ScriptFrame(k)
    \/ TickRender

SpecScenario == InitScenario /\ [][NextScenario]_vars


(***************************************************************************)
(* The claims.  The reference values below are the ones the specification  *)
(* states, in thousandths.                                                 *)
(***************************************************************************)
ClaimStep(c) == IF c \in {"linear", "angular"} THEN 10 ELSE 17

ClaimMax(c) ==
    CASE c \in {"linear", "angular"} -> 500
      [] c \in {"front_drum", "back_drum"} -> 170
      [] c \in {"front_arm", "back_arm"} -> 2360

\* A step that is lines 353-394 of one parse_events call; keys' are the keys it sampled.
RampStep == pc = "events" /\ pc' = "render"

KeysOfChannel(c) == IncKeys(c) \cup DecKeys(c)

CeilDiv(a, b) == (a + b - 1) \div b

\* C1: in every reachable state each of the six setpoints is inside its clamp range:
\* linear and angular speed in [-0.5, 0.5], both drum speeds in [-0.17, 0.17], both
\* arm angles in [-2.36, 2.36].
C1_SetpointsInRange ==
    /\ linear_target_speed \in -500 .. 500
    /\ angular_target_speed \in -500 .. 500
    /\ front_drum_target_speed \in -170 .. 170
    /\ back_drum_target_speed \in -170 .. 170
    /\ front_arm_target_angle \in -2360 .. 2360
    /\ back_arm_target_angle \in -2360 .. 2360

\* C1 witness: a frame held the forward key and left the linear speed on its upper
\* clamp, after a frame that held keys of all six channels.
C1_Witness ==
    /\ pc = "render"
    /\ "K_w" \in keys
    /\ linear_target_speed = 500
    /\ mixed > 0

\* C2 as stated: for every one of the six channels, a frame that holds an increase key
\* and a decrease key of the channel sets the value to min(old + step, max).
C2_BothKeysIncrease ==
    [][\A c \in Channels :
          (RampStep /\ Held(keys', IncKeys(c)) /\ Held(keys', DecKeys(c)))
             => Val(c)' = Min(Val(c) + ClaimStep(c), ClaimMax(c))]_vars

\* C2 amended: a frame that holds an increase key and a decrease key of a channel takes
\* the branch the code tests first: the increase branch, min(old + step, max), for
\* linear speed, the drum speeds and the arm angles, and the decrease branch,
\* max(old - step, -max), for angular speed (left/A is tested before right/D).
C2_BothKeysFirstBranch ==
    [][\A c \in Channels :
          (RampStep /\ Held(keys', IncKeys(c)) /\ Held(keys', DecKeys(c)))
             => Val(c)' = IF c = "angular"
                          THEN Max(Val(c) - ClaimStep(c), -ClaimMax(c))
                          ELSE Min(Val(c) + ClaimStep(c), ClaimMax(c))]_vars

\* C2 witness: a frame held both keys of every channel; linear speed went up and
\* angular speed went down.
C2_Witness ==
    /\ pc = "render"
    /\ keys = AllIncKeys \cup AllDecKeys
    /\ linear_target_speed = 10
    /\ angular_target_speed = -10
    /\ front_drum_target_speed = 17

\* C3 as stated: after every ramp update each of the six channels' current value has
\* been passed to its setter in that frame.
C3_AllSixSentEveryFrame ==
    pc = "render" =>
        /\ calls["apply_velocity_control"] =
             << <<linear_target_speed, angular_target_speed>> >>
        /\ \A c \in HoldChannels : calls[SetterOf(c)] = << <<Val(c)>> >>

\* C3 amended: after every ramp update the velocity command has been issued once, with
\* the current linear and angular speed; the setter of a drum speed or arm angle has
\* been called (once, with the current value) exactly when one of the channel's two
\* keys was held in that frame, and not at all otherwise.
C3_SentWhenKeyHeld ==
    pc = "render" =>
        /\ calls["apply_velocity_control"] =
             << <<linear_target_speed, angular_target_speed>> >>
        /\ \A c \in HoldChannels :
              calls[SetterOf(c)] =
                 IF Held(keys, KeysOfChannel(c)) THEN << <<Val(c)>> >> ELSE << >>

\* C3 witness: a frame held only the front drum's increase key: the velocity command
\* and the front drum setter were called, the arm and back drum setters were not.
C3_Witness ==
    /\ pc = "render"
    /\ keys = {"K_f"}
    /\ calls["apply_velocity_control"] = << <<0, 0>> >>
    /\ calls["set_front_drums_target_speed"] = << <<front_drum_target_speed>> >>
    /\ calls["set_front_arm_angle"] = << >>
    /\ calls["set_back_arm_angle"] = << >>
    /\ calls["set_back_drums_target_speed"] = << >>

\* C4: while only the increase key of a channel is held, frame after frame, starting at
\* the value v = hold_from, the value never decreases, and from the frame numbered
\* ceil((max - v) / step) of the streak on it equals max.
C4_HoldReachesMax ==
    [][(RampStep /\ hold' > 0) =>
          /\ Val(focus)' >= Val(focus)
          /\ (hold' >= CeilDiv(ClaimMax(focus) - hold_from', ClaimStep(focus))
                => Val(focus)' = ClaimMax(focus))]_vars

\* C4 witness: the front arm's increase key was held for 93 = ceil((2.36 - 0.79)/0.017)
\* frames from the initial angle 0.79 and for one frame more; the angle is 2.36.
C4_Witness ==
    /\ focus = "front_arm"
    /\ hold_from = initial_arm_angle
    /\ hold = 94
    /\ front_arm_target_angle = 2360

\* C5: a frame that holds no key of the linear (angular) channel leaves the linear
\* (angular) speed between its old value and 0, both included: it does not move away
\* from 0 and does not cross 0, from positive and from negative values.
C5_DecayTowardsRest ==
    [][\A c \in {"linear", "angular"} :
          (RampStep /\ ~Held(keys', KeysOfChannel(c)))
             => /\ Val(c) >= 0 => (0 <= Val(c)' /\ Val(c)' <= Val(c))
                /\ Val(c) <= 0 => (Val(c) <= Val(c)' /\ Val(c)' <= 0)]_vars

\* C5 witness: a frame with no key held ended at linear speed 0.48, which only the
\* decay from 0.5 produces.
C5_Witness ==
    /\ pc = "render"
    /\ focus = "linear"
    /\ keys = {}
    /\ linear_target_speed = 480

\* C6: the value of a drum speed or arm angle changes only in a ramp update that
\* sampled one of the channel's two keys as held; every other step, and so every frame
\* in which neither key is held, leaves it as it was.
C6_HoldChannelsFrozen ==
    [][\A c \in HoldChannels :
          Val(c)' # Val(c) => (RampStep /\ Held(keys', KeysOfChannel(c)))]_vars

\* C6 witness: the front arm was moved off its initial angle to 0.807 by a frame holding
\* every key, and a later frame holding only the forward key left it there.
C6_Witness ==
    /\ pc = "render"
    /\ focus = "linear"
    /\ keys = {"K_w"}
    /\ mixed = 1
    /\ linear_target_speed = 500
    /\ front_arm_target_angle = 807

\* C7: in the scripted run (forward key held in frames 1..HoldFrames, no linear key in
\* the frames after) the linear speed is below 0.5 before frame 50, 0.5 from frame 50
\* to frame HoldFrames, 0.02 lower per frame after that, and 0.3 ten frames after the
\* release.
C7_LinearScenario ==
    /\ frame < 50 => linear_target_speed = 10 * frame
    /\ (50 <= frame /\ frame <= HoldFrames) => linear_target_speed = 500
    /\ frame > HoldFrames => linear_target_speed = 500 - 20 * (frame - HoldFrames)
    /\ frame = HoldFrames + 10 => linear_target_speed = 300

\* C7 witness: ten frames after the release of the forward key.
C7_Witness ==
    /\ pc = "render"
    /\ frame = HoldFrames + 10
    /\ linear_target_speed = 300

\* C8: one ramp update changes a drum speed or arm angle v by the reference rule:
\* increase key held -> min(v + 0.017, max); otherwise decrease key held ->
\* max(v - 0.017, -max); with max = 0.17 for the drums and 2.36 for the arms.
C8_HoldChannelRule ==
    [][RampStep =>
          \A c \in HoldChannels :
             LET m == IF c \in {"front_drum", "back_drum"} THEN 170 ELSE 2360 IN
             /\ Held(keys', IncKeys(c)) => Val(c)' = Min(Val(c) + 17, m)
             /\ (~Held(keys', IncKeys(c)) /\ Held(keys', DecKeys(c)))
                   => Val(c)' = Max(Val(c) - 17, -m)]_vars

\* C8 witness: the back drum's decrease key was held in a frame that ended on the lower
\* clamp -0.17.
C8_Witness ==
    /\ pc = "render"
    /\ keys = {"K_m"}
    /\ back_drum_target_speed = -170

\* C9: every stored light level is in [0, 100] and every value passed to
\* set_light_state is in [0, 1].
C9_LightsInRange ==
    \A p \in SensorPositions :
       /\ lights_value[p] \in 0 .. 100
       /\ light_state[p] \in 0 .. 1000

\* C9 witness: the back light is at 100 % (set_light_state got 1.0) while the left
\* light is at 10 %.
C9_Witness ==
    /\ lights_value["Back"] = 100
    /\ light_state["Back"] = 1000
    /\ lights_value["Left"] = 10

\* C10: a KEYUP of the number key of position p sets p's level to min(level + 10, 100)
\* without shift and to max(level - 10, 0) with shift: from 0 an unmodified toggle gives
\* 10, a shift toggle from 10 gives 0, a shift toggle at 0 leaves 0.
C10_ToggleRule ==
    [][\A key \in LightKeys, shift \in BOOLEAN :
          KeyUp(key, shift) =>
             LET p == SensorOf(key) IN
             /\ ~shift => lights_value'[p] = Min(lights_value[p] + 10, 100)
             /\ shift => lights_value'[p] = Max(lights_value[p] - 10, 0)
             /\ (~shift /\ lights_value[p] = 0) => lights_value'[p] = 10
             /\ (shift /\ lights_value[p] = 10) => lights_value'[p] = 0
             /\ (shift /\ lights_value[p] = 0) => lights_value'[p] = 0]_vars

\* C10 witness: the front-left light (key 2) is at 10 %, which only an unmodified
\* toggle from 0 or a shift toggle from 20 produces.
C10_Witness ==
    /\ lights_value["FrontLeft"] = 10
    /\ light_state["FrontLeft"] = 100
    /\ lights_value["Front"] = 0


(***************************************************************************)
(* The world, the camera and the recorder: World (lines 144-244),          *)
(* CameraManager (lines 547-636), the other KEYUP branches of parse_events *)
(* (lines 287-325) and the try/finally of game_loop (lines 643-705).       *)
(*                                                                         *)
(* pc = "start" is line 670, before World(...) is called; pc =             *)
(* "set_sensor" is a set_sensor call between its lines 613 (listen) and    *)
(* 614 (self.index = index), with caller naming who called it; pc =        *)
(* "finally" is the entry of the finally block and pc = "done" its end.    *)
(* The simulator delivers images on its own thread: cb_pc = "called" is a  *)
(* call of the listener lambda that has not yet run _parse_image, "stale"  *)
(* such a call whose CameraManager has been dropped since.                 *)
(*                                                                         *)
(* light_state and radiator log the latest argument of set_light_state     *)
(* and set_radiator_cover_state, whichever vehicle was the player.         *)
(***************************************************************************)
camera_transforms == 8
sensors == 1

\* Lines 396-398.
IsQuitShortcut(key) == key = "K_ESCAPE" \/ key = "K_q"

\* World.destroy (lines 236-244), as the new values of the fields it touches.
DestroyStops == IF cm_sensor # "None" THEN sensor_stops + 1 ELSE sensor_stops
DestroyDestroys == IF cm_sensor # "None" THEN sensor_destroys + 1 ELSE sensor_destroys
DestroyPlayer == IF player # "None" THEN "destroyed" ELSE player

NewManagerSensorDefaultTransform(t_index, sensor_ok) ==
    /\ camera_manager' = "CameraManager"
    /\ cm_transform_index' = 1
    /\ cm_index' = NoIndex
    /\ cm_surface' = "None"
    /\ cm_recording' = FALSE
    /\ cm_sensor' = IF sensor_ok THEN "actor" ELSE "None"
    /\ sensor_stops' = 0
    /\ sensor_destroys' = 0
    /\ listening' = sensor_ok

\* World.restart lines 206-208: CameraManager.__init__ (lines 548-583), the assignment
\* of transform_index, and set_sensor up to line 613, on a
\* manager whose index is None and whose sensor is None: spawn_actor either returns the
\* new camera, which then gets its listener, or raises.
NewManagerSensor(t_index, sensor_ok) ==
    /\ camera_manager' = "CameraManager"
    /\ cm_transform_index' = t_index
    /\ cm_index' = NoIndex
    /\ cm_surface' = "None"
    /\ cm_recording' = FALSE
    /\ cm_sensor' = IF sensor_ok THEN "actor" ELSE "None"
    /\ sensor_stops' = 0
    /\ sensor_destroys' = 0
    /\ listening' = sensor_ok

Raise(exception) ==
    /\ pc' = "finally"
    /\ loop_exit' = exception

\* World.__init__ (lines 145-159): restart() with no player and no camera manager yet.
Construct(player_ok, sensor_ok) ==
    /\ pc = "start"
    /\ cam_index' = 0
    /\ cam_pos_index' = 0
    /\ IF ~player_ok
       THEN /\ Raise("ValueError")
            /\ UNCHANGED <<player, camera_vars, ss_index, caller>>
       ELSE /\ player' = "alive"
            /\ NewManagerSensor(0, sensor_ok)
            /\ UNCHANGED saved
            /\ IF sensor_ok
               THEN /\ pc' = "set_sensor"
                    /\ ss_index' = 0 % sensors
                    /\ caller' = "init"
                    /\ UNCHANGED loop_exit
               ELSE /\ Raise("RuntimeError")
                    /\ UNCHANGED <<ss_index, caller>>
    /\ UNCHANGED <<setpoints, lights_value, light_state, keys, calls, focus, mixed, observers,
                   world, recording_enabled, recorder, radiator, cb_pc, teardown>>

\* Line 614 of set_sensor and the return to its caller: World.__init__ goes on with
\* lines 160-162 and game_loop with lines 670-682; restart, toggle_camera and the replay
\* handler return to the event loop.
SetSensorIndex ==
    /\ pc = "set_sensor"
    /\ cm_index' = ss_index
    /\ pc' = "events"
    /\ cam_index' = NoIndex
    /\ cam_pos_index' = NoIndex
    /\ ss_index' = NoIndex
    /\ caller' = "None"
    /\ IF caller = "init"
       THEN /\ world' = "World"
            /\ recording_enabled' = FALSE
            /\ light_state' = NoLights
       ELSE UNCHANGED <<world, recording_enabled, light_state>>
    /\ UNCHANGED <<setpoints, lights_value, keys, calls, focus, mixed, observers, player,
                   camera_manager, cm_transform_index, cm_sensor, sensor_stops,
                   sensor_destroys, listening, cm_surface, cm_recording, saved, recorder,
                   radiator, cb_pc, loop_exit, teardown>>

\* KEYUP of Backspace (lines 292-293): World.restart (lines 164-213) up to line 613 of
\* its set_sensor call.  try_spawn_actor returns the new vehicle or None.
KeyUpBackspace(player_ok, sensor_ok) ==
    /\ pc = "events"
    /\ cam_index' = cm_index
    /\ cam_pos_index' = cm_transform_index
    /\ IF ~player_ok
       THEN /\ sensor_stops' = DestroyStops
            /\ sensor_destroys' = DestroyDestroys
            /\ listening' = FALSE
            /\ player' = "None"
            /\ Raise("ValueError")
            /\ UNCHANGED <<camera_manager, cm_index, cm_transform_index, cm_sensor,
                           cm_surface, cm_recording, ss_index, caller, cb_pc>>
       ELSE /\ player' = "alive"
            /\ NewManagerSensor(cm_transform_index, sensor_ok)
            /\ cb_pc' = IF cb_pc = "called" THEN "stale" ELSE cb_pc
            /\ IF sensor_ok
               THEN /\ pc' = "set_sensor"
                    /\ ss_index' = cm_index % sensors
                    /\ caller' = "restart"
                    /\ UNCHANGED loop_exit
               ELSE /\ Raise("RuntimeError")
                    /\ UNCHANGED <<ss_index, caller>>
    /\ UNCHANGED <<setpoints, lights_value, light_state, keys, calls, focus, mixed, observers,
                   world, saved, recording_enabled, recorder, radiator, teardown>>

\* KEYUP of Tab, with or without shift (lines 296-299): toggle_camera (lines 585-590)
\* and set_sensor(self.index, force_respawn=True) up to line 613.  In the event loop
\* self.index is an integer (line 614 has run), so line 593 does not raise.
KeyUpTab(reverse, sensor_ok) ==
    /\ pc = "events"
    /\ cm_transform_index' =
          IF reverse THEN (cm_transform_index - 1) % camera_transforms
                     ELSE (cm_transform_index + 1) % camera_transforms
    /\ cm_surface' = "None"
    /\ IF sensor_ok
       THEN /\ sensor_stops' = 0
            /\ sensor_destroys' = 0
            /\ listening' = TRUE
            /\ pc' = "set_sensor"
            /\ ss_index' = cm_index % sensors
            /\ caller' = "toggle_camera"
            /\ UNCHANGED loop_exit
       ELSE /\ sensor_destroys' = sensor_destroys + 1
            /\ listening' = FALSE
            /\ Raise("RuntimeError")
            /\ UNCHANGED <<sensor_stops, ss_index, caller>>
    /\ UNCHANGED <<setpoints, lights_value, light_state, keys, calls, focus, mixed, observers,
                   world, player, camera_manager, cm_index, cm_sensor, cm_recording, saved,
                   recording_enabled, recorder, radiator, cam_index, cam_pos_index, cb_pc,
                   teardown>>

\* KEYUP of R (lines 300-301): toggle_recording (lines 616-618).
KeyUpR ==
    /\ pc = "events"
    /\ cm_recording' = ~cm_recording
    /\ UNCHANGED <<pc, setpoints, lights_value, light_state, keys, calls, focus, mixed,
                   observers, world, player, camera_manager, cm_index, cm_transform_index,
                   cm_sensor, sensor_stops, sensor_destroys, listening, cm_surface, saved,
                   recording_enabled, recorder, radiator, restart_locals, cb_pc, loop_exit,
                   teardown>>

KeyUpOFlagKept ==
    /\ pc = "events"
    /\ IF recording_enabled
       THEN /\ recorder' = "stop_recorder"
            /\ recording_enabled' = recording_enabled
       ELSE /\ recorder' = "start_recorder"
            /\ recording_enabled' = TRUE
    /\ UNCHANGED <<pc, setpoints, lights_value, light_state, keys, calls, focus, mixed,
                   observers, world, player, camera_vars, radiator, restart_locals, cb_pc,
                   loop_exit, teardown>>

\* KEYUP of O (lines 302-310): start or stop the recorder.
KeyUpO ==
    /\ pc = "events"
    /\ IF recording_enabled
       THEN /\ recorder' = "stop_recorder"
            /\ recording_enabled' = FALSE
       ELSE /\ recorder' = "start_recorder"
            /\ recording_enabled' = TRUE
    /\ UNCHANGED <<pc, setpoints, lights_value, light_state, keys, calls, focus, mixed,
                   observers, world, player, camera_vars, radiator, restart_locals, cb_pc,
                   loop_exit, teardown>>

\* KEYUP of P (lines 311-318): stop the recorder, destroy_sensors (lines 231-234),
\* replay_file, and set_sensor(current_index) up to line 613.
KeyUpP(sensor_ok) ==
    /\ pc = "events"
    /\ recorder' = "stop_recorder"
    /\ recording_enabled' = FALSE
    /\ cm_index' = NoIndex
    /\ cm_sensor' = IF sensor_ok THEN "actor" ELSE "None"
    /\ sensor_stops' = 0
    /\ sensor_destroys' = 0
    /\ listening' = sensor_ok
    /\ IF sensor_ok
       THEN /\ pc' = "set_sensor"
            /\ ss_index' = cm_index % sensors
            /\ caller' = "replay"
            /\ UNCHANGED loop_exit
       ELSE /\ Raise("RuntimeError")
            /\ UNCHANGED <<ss_index, caller>>
    /\ UNCHANGED <<setpoints, lights_value, light_state, keys, calls, focus, mixed, observers,
                   world, player, camera_manager, cm_transform_index, cm_surface,
                   cm_recording, saved, radiator, cam_index, cam_pos_index, cb_pc, teardown>>

\* KEYUP of X or C (lines 320-325): open or close the radiator cover.
KeyUpRadiator(key) ==
    /\ pc = "events"
    /\ key \in {"K_x", "K_c"}
    /\ radiator' = IF key = "K_x" THEN "Open" ELSE "Close"
    /\ UNCHANGED <<pc, setpoints, lights_value, light_state, keys, calls, focus, mixed,
                   observers, world, player, camera_vars, recording_enabled, recorder,
                   restart_locals, cb_pc, loop_exit, teardown>>

\* A pygame.QUIT event (lines 287-288): parse_events returns True, game_loop returns.
QuitEvent ==
    /\ pc = "events"
    /\ Raise("QUIT")
    /\ UNCHANGED <<setpoints, lights_value, light_state, keys, calls, focus, mixed, observers,
                   world, player, camera_vars, recording_enabled, recorder, radiator,
                   restart_locals, cb_pc, teardown>>

\* KEYUP of a key _is_quit_shortcut accepts (lines 290-291): the same return.
KeyUpQuit(key) ==
    /\ pc = "events"
    /\ IsQuitShortcut(key)
    /\ Raise(key)
    /\ UNCHANGED <<setpoints, lights_value, light_state, keys, calls, focus, mixed, observers,
                   world, player, camera_vars, recording_enabled, recorder, radiator,
                   restart_locals, cb_pc, teardown>>

\* world.tick or world.render raises (lines 689-690).
TickRenderRaises ==
    /\ pc = "render"
    /\ Raise("RuntimeError")
    /\ UNCHANGED <<setpoints, lights_value, light_state, keys, calls, focus, mixed, observers,
                   world, player, camera_vars, recording_enabled, recorder, radiator,
                   restart_locals, cb_pc, teardown>>

FinallyNoStop ==
    <<"apply_settings">>
      \o (IF world # "None" THEN <<"destroy">> ELSE << >>)
      \o <<"pygame.quit">>

\* The calls of lines 696-705, in order (args.sync is always True: line 739).
FinallyCalls ==
    <<"apply_settings">>
      \o (IF world # "None" /\ recording_enabled THEN <<"stop_recorder">> ELSE << >>)
      \o (IF world # "None" THEN <<"destroy">> ELSE << >>)
      \o <<"pygame.quit">>

\* The finally block of game_loop (lines 694-705).
Finally ==
    /\ pc = "finally"
    /\ pc' = "done"
    /\ teardown' = FinallyCalls
    /\ recorder' = IF world # "None" /\ recording_enabled THEN "stop_recorder" ELSE recorder
    /\ IF world # "None"
       THEN /\ sensor_stops' = DestroyStops
            /\ sensor_destroys' = DestroyDestroys
            /\ listening' = FALSE
            /\ player' = DestroyPlayer
       ELSE UNCHANGED <<sensor_stops, sensor_destroys, listening, player>>
    /\ UNCHANGED <<setpoints, lights_value, light_state, keys, calls, focus, mixed, observers,
                   world, camera_manager, cm_index, cm_transform_index, cm_sensor,
                   cm_surface, cm_recording, saved, recording_enabled, radiator,
                   restart_locals, cb_pc, loop_exit>>

\* The simulator's thread calls the listener lambda of line 613.
ImageDeliver ==
    /\ pc # "done"
    /\ listening
    /\ cb_pc = "idle"
    /\ cb_pc' = "called"
    /\ UNCHANGED <<pc, setpoints, lights_value, light_state, keys, calls, focus, mixed,
                   observers, world, player, camera_vars, recording_enabled, recorder,
                   radiator, restart_locals, loop_exit, teardown>>

ParseImageNoWeakCheck ==
    /\ pc # "done"
    /\ cb_pc \in {"called", "stale"}
    /\ cb_pc' = "idle"
    /\ IF cm_index # NoIndex
       THEN /\ cm_surface' = "image"
            /\ saved' = cm_recording
       ELSE UNCHANGED <<cm_surface, saved>>
    /\ UNCHANGED <<pc, setpoints, lights_value, light_state, keys, calls, focus, mixed,
                   observers, world, player, camera_manager, cm_index, cm_transform_index,
                   cm_sensor, sensor_stops, sensor_destroys, listening, cm_recording,
                   recording_enabled, recorder, radiator, restart_locals, loop_exit,
                   teardown>>

\* _parse_image (lines 624-636).  With the manager gone it returns at line 628; with
\* self.index None line 629 raises TypeError on the simulator's thread.
ParseImage ==
    /\ pc # "done"
    /\ cb_pc \in {"called", "stale"}
    /\ cb_pc' = "idle"
    /\ IF cb_pc = "called" /\ cm_index # NoIndex
       THEN /\ cm_surface' = "image"
            /\ saved' = cm_recording
       ELSE UNCHANGED <<cm_surface, saved>>
    /\ UNCHANGED <<pc, setpoints, lights_value, light_state, keys, calls, focus, mixed,
                   observers, world, player, camera_manager, cm_index, cm_transform_index,
                   cm_sensor, sensor_stops, sensor_destroys, listening, cm_recording,
                   recording_enabled, recorder, radiator, restart_locals, loop_exit,
                   teardown>>

(***************************************************************************)
(* SpecWorld: game_loop from line 670 on.  The operator works the world    *)
(* keys; the increase keys of all channels are held in at most MaxMixed    *)
(* frames, and only the first two number keys are released, to switch a    *)
(* light to its first step or back.                                        *)
(***************************************************************************)
InitWorld ==
    /\ pc = "start"
    /\ linear_target_speed = 0
    /\ angular_target_speed = 0
    /\ front_drum_target_speed = 0
    /\ front_arm_target_angle = initial_arm_angle
    /\ back_arm_target_angle = initial_arm_angle
    /\ back_drum_target_speed = 0
    /\ lights_value = NoLights
    /\ light_state = NoLights
    /\ keys = {}
    /\ calls = NoCalls
    /\ focus = "world"
    /\ mixed = 0
    /\ frame = 0
    /\ hold = 0
    /\ hold_from = 0
    /\ stay = 0
    /\ world = "None"
    /\ player = "None"
    /\ camera_manager = "None"
    /\ cm_index = NoIndex
    /\ cm_transform_index = NoIndex
    /\ cm_sensor = "None"
    /\ sensor_stops = 0
    /\ sensor_destroys = 0
    /\ listening = FALSE
    /\ cm_surface = "None"
    /\ cm_recording = FALSE
    /\ saved = FALSE
    /\ recording_enabled = FALSE
    /\ recorder = "none"
    /\ radiator = "unset"
    /\ cam_index = NoIndex
    /\ cam_pos_index = NoIndex
    /\ ss_index = NoIndex
    /\ caller = "None"
    /\ cb_pc = "idle"
    /\ loop_exit = "none"
    /\ teardown = << >>

\* A frame with no key held.
IdleFrame ==
    /\ focus = "world"
    /\ RampUpdate({})
    /\ UNCHANGED <<focus, mixed, observers>>

\* A number key is released, with or without shift.
WorldLightKeys == {"K_1", "K_2"}

WorldToggle(key, shift) ==
    /\ focus = "world"
    /\ key \in WorldLightKeys
    /\ KeyUp(key, shift)
    /\ \A p \in SensorPositions : lights_value'[p] <= lights_increase
    /\ UNCHANGED <<focus, mixed, observers>>

NextWorld ==
    \/ \E player_ok, sensor_ok \in BOOLEAN : Construct(player_ok, sensor_ok)
    \/ SetSensorIndex
    \/ IdleFrame
    \/ \E k \in {AllIncKeys} : MixedFrame(k)
    \/ TickRender
    \/ TickRenderRaises
    \/ \E key \in WorldLightKeys, shift \in BOOLEAN : WorldToggle(key, shift)
    \/ \E player_ok, sensor_ok \in BOOLEAN : KeyUpBackspace(player_ok, sensor_ok)
    \/ \E reverse, sensor_ok \in BOOLEAN : KeyUpTab(reverse, sensor_ok)
    \/ KeyUpR
    \/ KeyUpO
    \/ \E sensor_ok \in BOOLEAN : KeyUpP(sensor_ok)
    \/ \E key \in {"K_x", "K_c"} : KeyUpRadiator(key)
    \/ QuitEvent
    \/ \E key \in {"K_ESCAPE", "K_q"} : KeyUpQuit(key)
    \/ Finally
    \/ ImageDeliver
    \/ ParseImage

SpecWorld == InitWorld /\ [][NextWorld]_vars

(***************************************************************************)
(* Claims about the world, the camera and the recorder (SpecWorld).        *)
(***************************************************************************)

\* A step of the for-loop that handles a KEYUP of the number key of position p: it
\* stays in the event loop and touches neither the setpoints, nor the world, nor the
\* level of another position.
ToggleStepFor(p) ==
    /\ pc = "events"
    /\ pc' = "events"
    /\ UNCHANGED <<setpoints, world_vars>>
    /\ \A q \in SensorPositions \ {p} : lights_value'[q] = lights_value[q]

\* C11: the light level of a position p changes only in a step that handles a toggle
\* key-up for p.  The ramp update, the toggles of other positions and every other
\* key-up (restart, camera toggle, recording, recorder, replay, radiator cover, quit)
\* leave it as it was, and so do the image callback and the finally block.
C11_LightChangesOnlyOnToggle ==
    [][\A p \in SensorPositions :
          /\ lights_value'[p] # lights_value[p] => ToggleStepFor(p)
          /\ (RampStep \/ world_vars' # world_vars \/ pc' # pc)
                => lights_value'[p] = lights_value[p]]_vars

\* C11 witness: the front light is on and the front-left light off although, since
\* the start, the cover was moved, the recorder used, the camera moved and drive keys
\* held, and the manager now in place is one that a restart made (fresh managers have
\* no surface and the callback that was running belongs to the old one).
C11_Witness ==
    /\ pc = "events"
    /\ lights_value["Front"] = lights_increase
    /\ lights_value["FrontLeft"] = 0
    /\ radiator = "Close"
    /\ recorder = "stop_recorder"
    /\ cm_transform_index = 3
    /\ cm_recording
    /\ cb_pc = "stale"
    /\ mixed = MaxMixed

\* A step that ends a parse_events call: the call returns None after the ramp update
\* (to line 689), or it returns True or raises (to the finally block).
CallEnds == pc \in {"events", "set_sensor"} /\ pc' \in {"render", "finally"}

\* C12 as stated: every parse_events call applies the ramp update and issues the
\* velocity command exactly once, whatever the event queue holds.
C12_OncePerCall ==
    [][CallEnds => Len(calls'["apply_velocity_control"]) = 1]_vars

\* C12, amended: a parse_events call that gets through its event loop (no QUIT event,
\* no key-up of a quit shortcut, no exception in a handler) applies the ramp update to
\* the linear and the angular setpoint exactly once and issues exactly one velocity
\* command, with the updated pair, however many events it handled; a call that
\* returns True or raises does so before line 353: no update and no command.
C12_OncePerCompletedCall ==
    [][/\ RampStep =>
            /\ linear_target_speed' = LinearUpdate(linear_target_speed, keys')
            /\ angular_target_speed' = AngularUpdate(angular_target_speed, keys')
            /\ calls'["apply_velocity_control"] =
                  << <<linear_target_speed', angular_target_speed'>> >>
       /\ (pc \in {"events", "set_sensor"} /\ ~RampStep) =>
            /\ UNCHANGED setpoints
            /\ calls' = NoCalls]_vars

\* C12 witness: after a restart and two light toggles, a call has got through its
\* event loop and made its one velocity command, with drive keys held.
C12_Witness ==
    /\ pc = "render"
    /\ Len(calls["apply_velocity_control"]) = 1
    /\ keys = AllIncKeys
    /\ linear_target_speed = 2 * linear_speed_increase
    /\ lights_value["Front"] = lights_increase
    /\ lights_value["FrontLeft"] = lights_increase
    /\ cm_surface = "None"
    /\ cb_pc = "stale"

\* A step in which a call of _parse_image runs, from line 626 to its return.
ParseImageStep == cb_pc \in {"called", "stale"} /\ cb_pc' = "idle"

\* C13: a call of _parse_image, wherever it falls between the steps of the main
\* thread, leaves the six setpoints, the light levels and everything else but the
\* camera manager's surface as they were; it writes the image to disk exactly when
\* recording is on; and when the camera manager it was registered for no longer
\* exists it does nothing.
C13_ParseImageFrame ==
    [][ParseImageStep =>
          /\ UNCHANGED <<pc, setpoints, lights_value, light_state, keys, calls>>
          /\ UNCHANGED <<world, player, camera_manager, cm_index, cm_transform_index,
                         cm_sensor, sensor_stops, sensor_destroys, listening,
                         cm_recording, recording_enabled, recorder, radiator,
                         restart_locals, loop_exit, teardown>>
          /\ cm_surface' # cm_surface => (cm_surface' = "image" /\ cb_pc = "called")
          /\ saved' # saved => (saved' = cm_recording /\ cb_pc = "called")
          /\ (cb_pc = "called" /\ cm_index # NoIndex) =>
                (cm_surface' = "image" /\ saved' = cm_recording)
          /\ cb_pc = "stale" => UNCHANGED <<cm_surface, saved>>]_vars

\* C13 witness: between the ramp update and the render of a frame, with the rover
\* driving and a light on, a callback has stored its image and written it to disk.
C13_Witness ==
    /\ pc = "render"
    /\ cb_pc = "idle"
    /\ cm_surface = "image"
    /\ saved
    /\ cm_recording
    /\ linear_target_speed > 0
    /\ lights_value["Front"] > 0

\* C14: as the help text printed at start-up says, ESC is the quit key and Q is not:
\* a key-up of ESC ends the control loop and a key-up of Q never does.
C14_OnlyEscapeQuits ==
    /\ loop_exit # "K_q"
    /\ IsQuitShortcut("K_ESCAPE")

\* C15: a successful restart gives the new camera manager the transform_index and the
\* sensor index the old one had (0 and 0 when World.__init__ makes the first call),
\* and no step of a restart changes a setpoint or a light level.
C15_RestartKeepsCamera ==
    [][/\ (pc = "events" /\ caller' = "restart") =>
            /\ cam_index' = cm_index
            /\ cam_pos_index' = cm_transform_index
            /\ cm_transform_index' = cm_transform_index
            /\ UNCHANGED <<setpoints, lights_value>>
       /\ (caller = "restart" /\ caller' = "restart") =>
            UNCHANGED <<cam_index, cam_pos_index, cm_transform_index, setpoints,
                        lights_value>>
       /\ (caller = "restart" /\ pc' = "events") =>
            /\ cm_index' = cam_index
            /\ cm_transform_index' = cam_pos_index
            /\ UNCHANGED <<setpoints, lights_value>>
       /\ (caller = "init" /\ pc' = "events") =>
            /\ cm_index' = 0
            /\ cm_transform_index' = 0]_vars

\* C15 witness: a restart has completed (the callback that was running belongs to
\* the manager it dropped) with the camera at transform 5, the arms moved and a
\* light on.
C15_Witness ==
    /\ pc = "events"
    /\ cb_pc = "stale"
    /\ cm_index = 0
    /\ cm_transform_index = 5
    /\ front_arm_target_angle > initial_arm_angle
    /\ lights_value["FrontLeft"] = lights_increase

\* C16: the camera sensor actor that the camera manager refers to has received at
\* most one stop() and at most one destroy(), in every state of every run.
C16_SensorDestroyedOnce ==
    /\ sensor_stops <= 1
    /\ sensor_destroys <= 1

\* C17: whenever the camera sensor has a registered listener, or a call of the
\* listener is under way, the camera manager's index is a valid sensor index.
C17_IndexValidWhileListening ==
    (listening \/ cb_pc = "called") => cm_index \in 0..(sensors - 1)

\* C18: once game_loop has ended after the World was created, whatever ended its
\* loop, the finally block has re-applied the original settings, then called
\* stop_recorder exactly if recording_enabled was True, then world.destroy(), and
\* pygame.quit() last; world.destroy() has destroyed the camera and the vehicle.
C18_TeardownOrder ==
    (pc = "done" /\ world = "World") =>
        /\ teardown[1] = "apply_settings"
        /\ teardown[Len(teardown)] = "pygame.quit"
        /\ teardown[Len(teardown) - 1] = "destroy"
        /\ IF recording_enabled
           THEN Len(teardown) = 4 /\ teardown[2] = "stop_recorder"
                  /\ recorder = "stop_recorder"
           ELSE Len(teardown) = 3
        /\ player # "alive"
        /\ ~listening
        /\ cm_sensor # "None" => sensor_destroys >= 1

\* C18 witness: the loop was left by an exception with the recorder running, and the
\* finally block has run.
C18_Witness ==
    /\ pc = "done"
    /\ world = "World"
    /\ loop_exit = "RuntimeError"
    /\ recording_enabled
    /\ Len(teardown) = 4
    /\ radiator = "Open"

\* C19: while the control loop runs, after any sequence of O and P key-ups (and of
\* anything else), recording_enabled is True exactly when the latest recorder call on
\* the client was start_recorder.
C19_FlagMatchesRecorder ==
    (world = "World" /\ pc # "done") =>
        (recording_enabled <=> recorder = "start_recorder")

\* C19 witness: a replay key-up, handled while an image callback was under way, has
\* stopped the recorder and cleared the flag.
C19_Witness ==
    /\ pc = "set_sensor"
    /\ caller = "replay"
    /\ cb_pc = "called"
    /\ recorder = "stop_recorder"
    /\ ~recording_enabled
    /\ cm_recording

====
